---- MODULE Spec2Model ----
(***************************************************************************)
(* Sparkify data lake ETL (etl.py): process_song_data and process_log_data *)
(* over one SparkSession, driven by main.                                  *)
(*                                                                         *)
(* A DataFrame, a temporary view and a written parquet table are sequences *)
(* of rows (a bag in some row order); a row is a record of column values.  *)
(* A column value is Null (<<>>, a JSON null) or <<v>>.  A DataFrame is    *)
(* bound to its rows when it is created: spark.sql resolves the views it   *)
(* names when it is called, so re-registering a view later does not change *)
(* a DataFrame that was already built from it.  partitionBy decides the    *)
(* directory layout of a table, not its rows, and is left out.             *)
(***************************************************************************)
EXTENDS Integers, Sequences, FiniteSets, TLC

VARIABLES
    song_files,    \* the JSON records under input_data/song_data
    log_files,     \* the JSON records under input_data/log_data
    views,         \* the session's temporary views: song_data, log_data
    output,        \* the parquet tables under output_data
    ps,            \* frame of process_song_data: pc and its local DataFrames
    pl,            \* frame of process_log_data: pc and its local DataFrames
    rerun,         \* TRUE once main has been started a second time
    start_output,  \* history: output when the current run of main started
    first_run,     \* history: "none", or how the first run of main ended
    written,       \* history: tables whose write completed in the current run
    torn           \* history: the table whose write failed in the current run

vars == <<song_files, log_files, views, output, ps, pl, rerun, start_output,
          first_run, written, torn>>

-----------------------------------------------------------------------------
(* Bounds of the model *)

MaxSongs == 2        \* records in song_data
MaxEvents == 2       \* records in log_data
NumPartitions == 2   \* partitions the joined rows may be split over
MaxJoined == 4       \* joined rows of the inputs on which a run may fail

-----------------------------------------------------------------------------
(* Column values *)

Null == <<>>
V(x) == <<x>>

\* Null-safe equality (<=>), under which null equals null.
NullSafeEq(a, b) == a = b

\* SQL "a = b" in a join or where condition: true only when both sides are
\* non-null and equal (null = anything is unknown, which rejects the row).
SqlEq(a, b) == a # Null /\ b # Null /\ a = b

Range(s) == {s[i] : i \in DOMAIN s}

Count(s, r) == Cardinality({i \in DOMAIN s : s[i] = r})

\* Two row sequences hold the same rows the same number of times.
SameRows(s, t) ==
    /\ Len(s) = Len(t)
    /\ \A r \in Range(s) \cup Range(t) : Count(s, r) = Count(t, r)

\* A temporary view of the session and a table of the output location: absent,
\* or present with its rows.  NoFrame is a local DataFrame not yet assigned.
NoView == [present |-> FALSE, rows |-> <<>>]
View(df) == [present |-> TRUE, rows |-> df]
NoTable == [present |-> FALSE, rows |-> <<>>]
Table(rows) == [present |-> TRUE, rows |-> rows]
NoFrame == "NoFrame"
TableNames == {"songs", "artists", "users", "time", "songplays"}

-----------------------------------------------------------------------------
(* Inputs: the records a song file or a log file may hold *)

SongRecord(k) ==
    CASE k = 1 -> [song_id |-> V("S1"), title |-> V("Foo"), artist_id |-> V("A1"),
                   artist_name |-> V("Bar"), artist_location |-> Null,
                   artist_latitude |-> Null, artist_longitude |-> Null,
                   year |-> V(2000), duration |-> V(200)]
      [] k = 2 -> [song_id |-> V("S2"), title |-> V("Foo"), artist_id |-> V("A1"),
                   artist_name |-> V("Bar"), artist_location |-> V("NYC"),
                   artist_latitude |-> V(40), artist_longitude |-> V(-74),
                   year |-> V(2001), duration |-> V(200)]
      [] OTHER -> [song_id |-> V("S3"), title |-> Null, artist_id |-> V("A2"),
                   artist_name |-> Null, artist_location |-> Null,
                   artist_latitude |-> Null, artist_longitude |-> Null,
                   year |-> Null, duration |-> V(180)]

EventRecord(k) ==
    CASE k = 1 -> [page |-> V("NextSong"), userId |-> V(10), firstName |-> V("Ann"),
                   lastName |-> V("Lee"), gender |-> V("F"), level |-> V("free"),
                   ts |-> V(1000), song |-> V("Foo"), artist |-> V("Bar"),
                   sessionId |-> V(1), location |-> V("SF"), userAgent |-> V("Mozilla")]
      [] k = 2 -> [page |-> V("NextSong"), userId |-> V(10), firstName |-> V("Ann"),
                   lastName |-> V("Lee"), gender |-> V("F"), level |-> V("paid"),
                   ts |-> V(1000), song |-> V("Foo"), artist |-> V("bar"),
                   sessionId |-> V(1), location |-> V("SF"), userAgent |-> V("Mozilla")]
      [] k = 3 -> [page |-> V("NextSong"), userId |-> V(10), firstName |-> V("Ann"),
                   lastName |-> V("Lee"), gender |-> V("F"), level |-> V("paid"),
                   ts |-> V(2500), song |-> Null, artist |-> Null,
                   sessionId |-> V(2), location |-> V("SF"), userAgent |-> V("Mozilla")]
      [] k = 4 -> [page |-> V("Home"), userId |-> V(12), firstName |-> V("Bob"),
                   lastName |-> V("Ray"), gender |-> V("M"), level |-> V("free"),
                   ts |-> V(3000), song |-> V("Foo"), artist |-> V("Bar"),
                   sessionId |-> V(3), location |-> Null, userAgent |-> V("Mozilla")]
      [] OTHER -> [page |-> V("NextSong"), userId |-> V(11), firstName |-> V("Cy"),
                   lastName |-> V("Orr"), gender |-> V("M"), level |-> V("paid"),
                   ts |-> V(-2000), song |-> V("Foo"), artist |-> V("Bar"),
                   sessionId |-> V(4), location |-> Null, userAgent |-> V("Opera")]

\* The index sequences of length 1 to n over 1..k, in non-decreasing order:
\* a directory of files is a bag of records, read in no particular order.
\* A directory with no record is left out: spark.read.json infers the columns
\* from the records, and with none of them the read or the first query fails.
Picks(k, n) ==
    {s \in UNION {[1..m -> 1..k] : m \in 1..n} :
        \A i \in DOMAIN s : i = 1 \/ s[i - 1] <= s[i]}

SongInputs == {[i \in DOMAIN s |-> SongRecord(s[i])] : s \in Picks(3, MaxSongs)}
LogInputs == {[i \in DOMAIN s |-> EventRecord(s[i])] : s \in Picks(5, MaxEvents)}

-----------------------------------------------------------------------------
(* Relational operators of the session *)

\* SELECT DISTINCT: the first occurrence of every row is kept.  Rows are
\* compared as by grouping, where null equals null.
RECURSIVE Distinct(_)
Distinct(s) ==
    IF s = <<>> THEN <<>>
    ELSE LET r == Distinct(SubSeq(s, 1, Len(s) - 1))
             l == s[Len(s)]
         IN  IF \E i \in DOMAIN r : r[i] = l THEN r ELSE Append(r, l)

\* The pairs <<l, r>> of a row of L and a row of R, from which a join keeps
\* those that satisfy its ON condition.
CrossJoin(L, R) ==
    LET n == Len(L)
        m == Len(R)
    IN  [k \in 1..(n * m) |-> <<L[((k - 1) \div m) + 1], R[((k - 1) % m) + 1]>>]

\* MAX over a group: nulls are ignored, an all-null group gives null.
MaxOf(vals) ==
    LET nn == {v[1] : v \in {w \in vals : w # Null}}
    IN  IF nn = {} THEN Null ELSE V(CHOOSE x \in nn : \A y \in nn : y <= x)

\* mode("append"): the new rows are added to what the location holds.
WriteAppend(old, new) == [present |-> TRUE, rows |-> old.rows \o new]

\* mode("ignore"): a location that holds a table is left alone.
WriteIgnore(old, new) == IF old.present THEN old ELSE [present |-> TRUE, rows |-> new]

\* DataFrameWriter.mode("overwrite"): what the location holds after the write.
WriteTable(old, new) == Table(new)

-----------------------------------------------------------------------------
(* Timestamps.  A timestamp is a number of microseconds since the epoch;   *)
(* the calendar fields are those of the session time zone, UTC here.       *)

MillisPerSecond == 1000

\* udf(lambda x: datetime.fromtimestamp(x/1000), TimestampType()): ts is in
\* milliseconds, x/1000 in seconds with a fraction, and the timestamp keeps
\* the fraction.  ts is never null in the inputs of the model.
get_timestamp(x) == V((x[1] \div MillisPerSecond) * 1000000
                      + (x[1] % MillisPerSecond) * (1000000 \div MillisPerSecond))

EpochSecond(st) == st[1] \div 1000000
EpochDay(st) == EpochSecond(st) \div 86400

\* The proleptic Gregorian date of a day number (day 0 is 1970-01-01).
CivilFromDays(days) ==
    LET z == days + 719468
        era == z \div 146097
        doe == z - era * 146097
        yoe == (doe - doe \div 1460 + doe \div 36524 - doe \div 146096) \div 365
        doy == doe - (365 * yoe + yoe \div 4 - yoe \div 100)
        mp == (5 * doy + 2) \div 153
        m == IF mp < 10 THEN mp + 3 ELSE mp - 9
    IN  [year |-> yoe + era * 400 + (IF m <= 2 THEN 1 ELSE 0),
         month |-> m,
         day |-> doy - (153 * mp + 2) \div 5 + 1]

\* The day number of January 1st of year y.
DaysOfNewYear(y) ==
    LET era == (y - 1) \div 400
        yoe == (y - 1) - era * 400
    IN  era * 146097 + yoe * 365 + yoe \div 4 - yoe \div 100 + 306 - 719468

year(st) == V(CivilFromDays(EpochDay(st)).year)
month(st) == V(CivilFromDays(EpochDay(st)).month)
dayofmonth(st) == V(CivilFromDays(EpochDay(st)).day)
hour(st) == V((EpochSecond(st) % 86400) \div 3600)

\* 1 = Sunday ... 7 = Saturday; 1970-01-01 was a Thursday.
dayofweek(st) == V(((EpochDay(st) + 4) % 7) + 1)

\* ISO 8601 week: the week of the Thursday of the date's Monday-based week.
weekofyear(st) ==
    LET d == EpochDay(st)
        thursday == d - ((d + 3) % 7) + 3
    IN  V(((thursday - DaysOfNewYear(CivilFromDays(thursday).year)) \div 7) + 1)

-----------------------------------------------------------------------------
(* The queries of process_song_data and process_log_data *)

SongsRow(r) ==
    [song_id |-> r.song_id, title |-> r.title, artist_id |-> r.artist_id,
     year |-> r.year, duration |-> r.duration]

\* The songs query without DISTINCT.
SongsQueryAll(song_data) == [i \in DOMAIN song_data |-> SongsRow(song_data[i])]

\* SELECT DISTINCT song_id, title, artist_id, year, duration FROM song_data
SongsQuery(song_data) == Distinct([i \in DOMAIN song_data |-> SongsRow(song_data[i])])

ArtistsRow(r) ==
    [artist_id |-> r.artist_id, name |-> r.artist_name,
     location |-> r.artist_location, latitude |-> r.artist_latitude,
     longitude |-> r.artist_longitude]

\* SELECT DISTINCT artist_id, artist_name AS name, ... FROM song_data
ArtistsQuery(song_data) == Distinct([i \in DOMAIN song_data |-> ArtistsRow(song_data[i])])

\* No filter: every page is kept.
FilterNothing(df) == df

\* df.filter(df.page == 'NextSong')
FilterNextSong(df) ==
    LET Keep(r) == SqlEq(r.page, V("NextSong"))
    IN  SelectSeq(df, Keep)

\* WITH latest AS (SELECT userId, MAX(ts) as ts FROM log_data GROUP BY userId)
Latest(log_data) ==
    LET ids == Distinct([i \in DOMAIN log_data |-> log_data[i].userId])
    IN  [g \in DOMAIN ids |->
            [userId |-> ids[g],
             ts |-> MaxOf({log_data[j].ts :
                             j \in {k \in DOMAIN log_data : log_data[k].userId = ids[g]}})]]

UsersRow(s) ==
    [user_id |-> s.userId, first_name |-> s.firstName, last_name |-> s.lastName,
     gender |-> s.gender, level |-> s.level]

\* SELECT DISTINCT s.userId AS user_id, ... FROM log_data s
\*   JOIN latest ON latest.userId = s.userId WHERE s.ts = latest.ts
UsersQuery(log_data) ==
    LET On(p) == SqlEq(p[2].userId, p[1].userId)
        Where(p) == SqlEq(p[1].ts, p[2].ts)
        joined == SelectSeq(SelectSeq(CrossJoin(log_data, Latest(log_data)), On), Where)
    IN  Distinct([i \in DOMAIN joined |-> UsersRow(joined[i][1])])

\* df.withColumn("start_time", get_timestamp(df.ts))
WithStartTime(df) ==
    [i \in DOMAIN df |-> [start_time |-> get_timestamp(df[i].ts)] @@ df[i]]

TimeRow(r) ==
    [start_time |-> r.start_time, hour |-> hour(r.start_time),
     day |-> dayofmonth(r.start_time), week |-> weekofyear(r.start_time),
     month |-> month(r.start_time), year |-> year(r.start_time),
     weekday |-> dayofweek(r.start_time)]

\* The time query without DISTINCT.
TimeQueryAll(log_data) == [i \in DOMAIN log_data |-> TimeRow(log_data[i])]

\* SELECT DISTINCT start_time, hour(start_time) AS hour, ... FROM log_data
TimeQuery(log_data) == Distinct([i \in DOMAIN log_data |-> TimeRow(log_data[i])])

SongplaysRow(l, s) ==
    [start_time |-> l.start_time, month |-> month(l.start_time),
     year |-> year(l.start_time), user_id |-> l.userId, level |-> l.level,
     song_id |-> s.song_id, artist_id |-> s.artist_id, session_id |-> l.sessionId,
     location |-> l.location, user_agent |-> l.userAgent]

\* SELECT ... FROM log_data l
\*   JOIN song_data s ON l.song = s.title AND l.artist = s.artist_name
SongplaysQuery(log_data, song_data) ==
    LET On(p) == SqlEq(p[1].song, p[2].title) /\ SqlEq(p[1].artist, p[2].artist_name)
        joined == SelectSeq(CrossJoin(log_data, song_data), On)
    IN  [i \in DOMAIN joined |-> SongplaysRow(joined[i][1], joined[i][2])]

\* The ways n rows in their row order fall into NumPartitions partitions:
\* cuts[j] is the number of rows in the partitions up to the j-th.
Splits(n) ==
    {c \in [1..(NumPartitions - 1) -> 0..n] :
        \A j \in DOMAIN c : j = 1 \/ c[j - 1] <= c[j]}

\* An id that numbers the rows of each partition from 0 and leaves the
\* partition out.
RecordNumberOnly(i, cuts) ==
    LET before == {cuts[j] : j \in {k \in DOMAIN cuts : cuts[k] < i}}
        start == IF before = {} THEN 0 ELSE CHOOSE x \in before : \A y \in before : y <= x
    IN  [partition |-> 0, record |-> i - 1 - start]

\* monotonically_increasing_id(): a 64-bit value with the partition index in
\* the upper 31 bits and the record number within the partition in the lower
\* 33 bits, kept here as the two bit fields.
monotonically_increasing_id(i, cuts) ==
    LET before == {cuts[j] : j \in {k \in DOMAIN cuts : cuts[k] < i}}
        start == IF before = {} THEN 0 ELSE CHOOSE x \in before : \A y \in before : y <= x
    IN  [partition |-> Cardinality({j \in DOMAIN cuts : cuts[j] < i}),
         record |-> i - 1 - start]

\* song_df.withColumn("songplay_id", monotonically_increasing_id())
WithSongplayId(song_df, cuts) ==
    [i \in DOMAIN song_df |->
        [songplay_id |-> V(monotonically_increasing_id(i, cuts))] @@ song_df[i]]

-----------------------------------------------------------------------------
(* State *)

IdleSong == [pc |-> "idle", df |-> NoFrame, songs_table |-> NoFrame,
             artists_table |-> NoFrame]

IdleLog == [pc |-> "idle", df |-> NoFrame, users_table |-> NoFrame,
            time_table |-> NoFrame, song_df |-> NoFrame,
            songplays_table |-> NoFrame]

\* create_spark_session() in a new process: a session with no temporary view.
create_spark_session == [song_data |-> NoView, log_data |-> NoView]

Init ==
    /\ song_files \in SongInputs
    /\ log_files \in LogInputs
    /\ views = create_spark_session
    /\ output = [t \in TableNames |-> NoTable]
    /\ ps = IdleSong
    /\ pl = IdleLog
    /\ rerun = FALSE
    /\ start_output = [t \in TableNames |-> NoTable]
    /\ first_run = "none"
    /\ written = {}
    /\ torn = "none"

Inputs == <<song_files, log_files>>
History == <<rerun, start_output, first_run, torn>>

SongRunning == ps.pc \notin {"idle", "done", "error"}
LogRunning == pl.pc \notin {"idle", "done", "error"}

\* A completed write of `rows` to the table `t`.
Write(t, rows) ==
    /\ output' = [output EXCEPT ![t] = WriteTable(output[t], rows)]
    /\ written' = written \cup {t}

-----------------------------------------------------------------------------
(* process_song_data *)

SongRead ==
    /\ ps.pc = "read"
    /\ ps' = [ps EXCEPT !.pc = "register", !.df = song_files]
    /\ UNCHANGED <<Inputs, views, output, pl, History, written>>

SongRegisterView ==
    /\ ps.pc = "register"
    /\ views' = [views EXCEPT !.song_data = View(ps.df)]
    /\ ps' = [ps EXCEPT !.pc = "songs_query"]
    /\ UNCHANGED <<Inputs, output, pl, History, written>>

SongSongsQuery ==
    /\ ps.pc = "songs_query"
    /\ ps' = [ps EXCEPT !.pc = "songs_write",
                        !.songs_table = SongsQuery(views.song_data.rows)]
    /\ UNCHANGED <<Inputs, views, output, pl, History, written>>

SongSongsWrite ==
    /\ ps.pc = "songs_write"
    /\ Write("songs", ps.songs_table)
    /\ ps' = [ps EXCEPT !.pc = "artists_query"]
    /\ UNCHANGED <<Inputs, views, pl, History>>

SongArtistsQuery ==
    /\ ps.pc = "artists_query"
    /\ ps' = [ps EXCEPT !.pc = "artists_write",
                        !.artists_table = ArtistsQuery(views.song_data.rows)]
    /\ UNCHANGED <<Inputs, views, output, pl, History, written>>

SongArtistsWrite ==
    /\ ps.pc = "artists_write"
    /\ Write("artists", ps.artists_table)
    /\ ps' = [ps EXCEPT !.pc = "done"]
    /\ UNCHANGED <<Inputs, views, pl, History>>

SongSteps ==
    \/ SongRead
    \/ SongRegisterView
    \/ SongSongsQuery
    \/ SongSongsWrite
    \/ SongArtistsQuery
    \/ SongArtistsWrite

-----------------------------------------------------------------------------
(* process_log_data *)

LogRead ==
    /\ pl.pc = "read"
    /\ pl' = [pl EXCEPT !.pc = "filter", !.df = log_files]
    /\ UNCHANGED <<Inputs, views, output, ps, History, written>>

LogFilter ==
    /\ pl.pc = "filter"
    /\ pl' = [pl EXCEPT !.pc = "register", !.df = FilterNextSong(pl.df)]
    /\ UNCHANGED <<Inputs, views, output, ps, History, written>>

LogRegisterView ==
    /\ pl.pc = "register"
    /\ views' = [views EXCEPT !.log_data = View(pl.df)]
    /\ pl' = [pl EXCEPT !.pc = "users_query"]
    /\ UNCHANGED <<Inputs, output, ps, History, written>>

LogUsersQuery ==
    /\ pl.pc = "users_query"
    /\ pl' = [pl EXCEPT !.pc = "users_write",
                        !.users_table = UsersQuery(views.log_data.rows)]
    /\ UNCHANGED <<Inputs, views, output, ps, History, written>>

LogUsersWrite ==
    /\ pl.pc = "users_write"
    /\ Write("users", pl.users_table)
    /\ pl' = [pl EXCEPT !.pc = "with_start_time"]
    /\ UNCHANGED <<Inputs, views, ps, History>>

LogWithStartTime ==
    /\ pl.pc = "with_start_time"
    /\ pl' = [pl EXCEPT !.pc = "reregister", !.df = WithStartTime(pl.df)]
    /\ UNCHANGED <<Inputs, views, output, ps, History, written>>

LogReRegisterView ==
    /\ pl.pc = "reregister"
    /\ views' = [views EXCEPT !.log_data = View(pl.df)]
    /\ pl' = [pl EXCEPT !.pc = "time_query"]
    /\ UNCHANGED <<Inputs, output, ps, History, written>>

LogTimeQuery ==
    /\ pl.pc = "time_query"
    /\ pl' = [pl EXCEPT !.pc = "time_write",
                        !.time_table = TimeQuery(views.log_data.rows)]
    /\ UNCHANGED <<Inputs, views, output, ps, History, written>>

LogTimeWrite ==
    /\ pl.pc = "time_write"
    /\ Write("time", pl.time_table)
    /\ pl' = [pl EXCEPT !.pc = "songplays_query"]
    /\ UNCHANGED <<Inputs, views, ps, History>>

\* spark.sql resolves song_data when it is called: with no such view in the
\* session it raises AnalysisException, which nothing catches.
LogSongplaysQuery ==
    /\ pl.pc = "songplays_query"
    /\ pl' = IF ~views.song_data.present
             THEN [pl EXCEPT !.pc = "error"]
             ELSE [pl EXCEPT !.pc = "with_id",
                             !.song_df = SongplaysQuery(views.log_data.rows,
                                                       views.song_data.rows)]
    /\ UNCHANGED <<Inputs, views, output, ps, History, written>>

LogWithSongplayId ==
    /\ pl.pc = "with_id"
    /\ \E cuts \in Splits(Len(pl.song_df)) :
          pl' = [pl EXCEPT !.pc = "songplays_write",
                           !.songplays_table = WithSongplayId(pl.song_df, cuts)]
    /\ UNCHANGED <<Inputs, views, output, ps, History, written>>

LogSongplaysWrite ==
    /\ pl.pc = "songplays_write"
    /\ Write("songplays", pl.songplays_table)
    /\ pl' = [pl EXCEPT !.pc = "done"]
    /\ UNCHANGED <<Inputs, views, ps, History>>

LogSteps ==
    \/ LogRead
    \/ LogFilter
    \/ LogRegisterView
    \/ LogUsersQuery
    \/ LogUsersWrite
    \/ LogWithStartTime
    \/ LogReRegisterView
    \/ LogTimeQuery
    \/ LogTimeWrite
    \/ LogSongplaysQuery
    \/ LogWithSongplayId
    \/ LogSongplaysWrite

-----------------------------------------------------------------------------
(* main: process_song_data, then process_log_data, on a new session *)

MainCallSong ==
    /\ ps.pc = "idle" /\ pl.pc = "idle"
    /\ ps' = [ps EXCEPT !.pc = "read"]
    /\ UNCHANGED <<Inputs, views, output, pl, History, written>>

MainCallLog ==
    /\ ps.pc = "done" /\ pl.pc = "idle"
    /\ pl' = [pl EXCEPT !.pc = "read"]
    /\ UNCHANGED <<Inputs, views, output, ps, History, written>>

Next ==
    \/ MainCallSong
    \/ SongSteps
    \/ MainCallLog
    \/ LogSteps

Spec == Init /\ [][Next]_vars

-----------------------------------------------------------------------------
(* A failing call of the session.  A read (spark.read.json), a query          *)
(* (spark.sql) or a write may raise; neither transform nor main catches, so  *)
(* the run ends there.  A write in overwrite mode is not atomic: it deletes  *)
(* what the location holds and then writes the new files, so a write that    *)
(* fails leaves the old table, no table, or some of the new rows.  At most   *)
(* one of the two runs of main fails.                                        *)

TornOutcomes(old, new) ==
    {old, NoTable} \cup {Table(SubSeq(new, 1, k)) : k \in 1..(Len(new) - 1)}

SongPending ==
    CASE ps.pc = "songs_write" -> [table |-> "songs", rows |-> ps.songs_table]
      [] ps.pc = "artists_write" -> [table |-> "artists", rows |-> ps.artists_table]
      [] OTHER -> [table |-> "none", rows |-> <<>>]

LogPending ==
    CASE pl.pc = "users_write" -> [table |-> "users", rows |-> pl.users_table]
      [] pl.pc = "time_write" -> [table |-> "time", rows |-> pl.time_table]
      [] pl.pc = "songplays_write" -> [table |-> "songplays", rows |-> pl.songplays_table]
      [] OTHER -> [table |-> "none", rows |-> <<>>]

\* The run ends with the table `w.table` (if any) half written.
Tear(w) ==
    /\ torn' = w.table
    /\ IF w.table = "none"
       THEN output' = output
       ELSE \E t \in TornOutcomes(output[w.table], w.rows) :
               output' = [output EXCEPT ![w.table] = t]

SongStepFails ==
    /\ first_run # "failed"
    /\ ps.pc \in {"read", "songs_query", "songs_write", "artists_query", "artists_write"}
    /\ Tear(SongPending)
    /\ ps' = [ps EXCEPT !.pc = "error"]
    /\ UNCHANGED <<Inputs, views, pl, rerun, start_output, first_run, written>>

LogStepFails ==
    /\ first_run # "failed"
    /\ pl.pc \in {"read", "users_query", "users_write", "time_query", "time_write",
                  "songplays_query", "songplays_write"}
    /\ Tear(LogPending)
    /\ pl' = [pl EXCEPT !.pc = "error"]
    /\ UNCHANGED <<Inputs, views, ps, rerun, start_output, first_run, written>>

-----------------------------------------------------------------------------
(* main run twice on the same inputs and outputs, one of the runs possibly  *)
(* failing.                                                                  *)

MainEnded == pl.pc \in {"done", "error"} \/ ps.pc = "error"

\* main is started again, in a new process, on the same inputs and outputs.
Rerun ==
    /\ ~rerun
    /\ MainEnded
    /\ rerun' = TRUE
    /\ first_run' = IF pl.pc = "done" THEN "complete" ELSE "failed"
    /\ start_output' = output
    /\ written' = {}
    /\ torn' = "none"
    /\ views' = create_spark_session
    /\ ps' = IdleSong
    /\ pl' = IdleLog
    /\ UNCHANGED <<Inputs, output>>

InitRerun ==
    /\ Init
    /\ Len(SongplaysQuery(WithStartTime(FilterNextSong(log_files)), song_files)) <= MaxJoined

NextRerun ==
    \/ Next
    \/ SongStepFails
    \/ LogStepFails
    \/ Rerun

SpecRerun == InitRerun /\ [][NextRerun]_vars

-----------------------------------------------------------------------------
(* The two entry points called one after the other, in either order, on one *)
(* session.                                                                  *)

EntrySong ==
    /\ ps.pc = "idle" /\ ~LogRunning
    /\ ps' = [ps EXCEPT !.pc = "read"]
    /\ UNCHANGED <<Inputs, views, output, pl, History, written>>

EntryLog ==
    /\ pl.pc = "idle" /\ ~SongRunning
    /\ pl' = [pl EXCEPT !.pc = "read"]
    /\ UNCHANGED <<Inputs, views, output, ps, History, written>>

NextEntry ==
    \/ EntrySong
    \/ EntryLog
    \/ SongSteps
    \/ LogSteps

SpecEntry == Init /\ [][NextEntry]_vars

-----------------------------------------------------------------------------
(* The two transforms run concurrently on one session, one thread each.     *)

ThreadSong ==
    /\ ps.pc = "idle"
    /\ ps' = [ps EXCEPT !.pc = "read"]
    /\ UNCHANGED <<Inputs, views, output, pl, History, written>>

ThreadLog ==
    /\ pl.pc = "idle"
    /\ pl' = [pl EXCEPT !.pc = "read"]
    /\ UNCHANGED <<Inputs, views, output, ps, History, written>>

NextConcurrent ==
    \/ ThreadSong
    \/ ThreadLog
    \/ SongSteps
    \/ LogSteps

SpecConcurrent == Init /\ [][NextConcurrent]_vars

-----------------------------------------------------------------------------
(* Properties *)

NextSongEvents == {i \in DOMAIN log_files : log_files[i].page = V("NextSong")}

Failed == ps.pc = "error" \/ pl.pc = "error"

\* A row without its songplay_id column (any other row is left as it is).
WithoutId(r) == [f \in DOMAIN r \ {"songplay_id"} |-> r[f]]

Rows(t) == [i \in DOMAIN output[t].rows |-> WithoutId(output[t].rows[i])]

\* The rows one run of main that never fails writes to table t (without
\* songplay_id), as the composition of its queries over the inputs.
CleanRun(t) ==
    LET log_data == WithStartTime(FilterNextSong(log_files))
    IN  CASE t = "songs" -> SongsQuery(song_files)
          [] t = "artists" -> ArtistsQuery(song_files)
          [] t = "users" -> UsersQuery(FilterNextSong(log_files))
          [] t = "time" -> TimeQuery(log_data)
          [] OTHER -> SongplaysQuery(log_data, song_files)

\* The event's song and artist equal a catalog record's title and artist_name.
Matches(e, s) ==
    /\ e.song # Null /\ e.artist # Null
    /\ e.song = s.title /\ e.artist = s.artist_name

MatchingPairs ==
    {p \in NextSongEvents \X DOMAIN song_files :
        Matches(log_files[p[1]], song_files[p[2]])}

\* The songplays row of an event and a catalog record.
RowFor(p) ==
    SongplaysRow([start_time |-> get_timestamp(log_files[p[1]].ts)] @@ log_files[p[1]],
                 song_files[p[2]])

\* C1: once process_log_data has written users, every user_id of a NextSong
\* event has exactly one users row, and that row carries the first_name,
\* last_name, gender and level of a NextSong event of the user with the
\* maximum ts.
C1_UsersOneRowPerUser ==
    "users" \in written =>
        \A i \in NextSongEvents :
            LET mine == {j \in NextSongEvents : log_files[j].userId = log_files[i].userId}
                rows == {k \in DOMAIN output.users.rows :
                            output.users.rows[k].user_id = log_files[i].userId}
            IN  /\ Cardinality(rows) = 1
                /\ \A k \in rows :
                     \E j \in mine :
                        /\ \A m \in mine : log_files[m].ts[1] <= log_files[j].ts[1]
                        /\ output.users.rows[k] = UsersRow(log_files[j])

\* C2: once process_log_data has written songplays, the table holds exactly
\* one row for every pair of a NextSong event and a catalog record whose
\* title and artist_name equal the event's song and artist (both non-null,
\* case-sensitive), and no other row.
C2_SongplaysIffCatalogMatch ==
    "songplays" \in written =>
        /\ Len(Rows("songplays")) = Cardinality(MatchingPairs)
        /\ \A r \in Range(Rows("songplays")) \cup {RowFor(p) : p \in MatchingPairs} :
              Count(Rows("songplays"), r) = Cardinality({p \in MatchingPairs : RowFor(p) = r})

C2_Witness ==
    /\ "songplays" \in written
    /\ \E p \in MatchingPairs :
          \E i \in NextSongEvents :
             /\ \A j \in DOMAIN song_files : <<i, j>> \notin MatchingPairs
             /\ \E j \in DOMAIN song_files :
                   \/ log_files[i].song = Null /\ song_files[j].title = Null
                   \/ log_files[i].song = song_files[j].title

\* C3: process_log_data never raises, on whatever session it is called, and
\* when it has completed songplays holds the join of the NextSong events with
\* the song catalog of the input location.
C3_LogDataLoadsItsOwnCatalog ==
    /\ pl.pc # "error"
    /\ pl.pc = "done" => SameRows(Rows("songplays"), CleanRun("songplays"))

\* C4: no event whose page is not NextSong is in the log_data view, at its
\* first or its second registration, and every users, time and songplays row
\* comes from a NextSong event of the log.
C4_OnlyNextSongEvents ==
    /\ \A r \in Range(views.log_data.rows) : r.page = V("NextSong")
    /\ \A r \in Range(output.users.rows) :
          \E i \in NextSongEvents : r = UsersRow(log_files[i])
    /\ \A r \in Range(output.time.rows) :
          \E i \in NextSongEvents : r.start_time = get_timestamp(log_files[i].ts)
    /\ \A r \in Range(output.songplays.rows) :
          \E i \in NextSongEvents :
             /\ r.start_time = get_timestamp(log_files[i].ts)
             /\ r.user_id = log_files[i].userId
             /\ r.level = log_files[i].level
             /\ r.session_id = log_files[i].sessionId
             /\ r.location = log_files[i].location
             /\ r.user_agent = log_files[i].userAgent

C4_Witness ==
    /\ {"users", "time", "songplays"} \subseteq written
    /\ output.songplays.rows # <<>>
    /\ \E i \in DOMAIN log_files :
          /\ log_files[i].page = V("Home")
          /\ \E j \in DOMAIN song_files : Matches(log_files[i], song_files[j])

\* C5: the songs table never holds two equal rows, nor does the artists
\* table, whatever records the song files hold.
C5_NoDuplicateRows ==
    \A t \in {"songs", "artists"} :
        \A i, j \in DOMAIN output[t].rows :
            i # j => output[t].rows[i] # output[t].rows[j]

C5_Witness ==
    /\ {"songs", "artists"} \subseteq written
    /\ output.songs.rows # <<>>
    /\ \E i, j \in DOMAIN song_files :
          /\ i # j
          /\ song_files[i] = song_files[j]
          /\ song_files[i].title = Null

\* C6: no two rows of the songplays DataFrame, or of the songplays table,
\* carry the same songplay_id, however the rows are split over partitions.
C6_SongplayIdsDistinct ==
    /\ \A i, j \in DOMAIN output.songplays.rows :
          i # j => output.songplays.rows[i].songplay_id
                      # output.songplays.rows[j].songplay_id
    /\ pl.pc = "songplays_write" =>
          \A i, j \in DOMAIN pl.songplays_table :
             i # j => pl.songplays_table[i].songplay_id
                         # pl.songplays_table[j].songplay_id

C6_Witness ==
    /\ "songplays" \in written
    /\ \E i, j \in DOMAIN output.songplays.rows :
          /\ i # j
          /\ WithoutId(output.songplays.rows[i]) = WithoutId(output.songplays.rows[j])
          /\ output.songplays.rows[i].songplay_id[1].record
                = output.songplays.rows[j].songplay_id[1].record
          /\ output.songplays.rows[i].songplay_id[1].partition
                # output.songplays.rows[j].songplay_id[1].partition

\* C7: when main has run to completion twice on the same inputs, each of
\* the five tables holds after the second run the rows it held after the
\* first (songplay_id left out), each as many times.
C7_SecondRunSameTables ==
    (rerun /\ first_run = "complete" /\ pl.pc = "done") =>
        \A t \in TableNames :
            /\ output[t].present
            /\ SameRows(Rows(t), [i \in DOMAIN start_output[t].rows |->
                                        WithoutId(start_output[t].rows[i])])

C7_Witness ==
    /\ rerun /\ first_run = "complete" /\ pl.pc = "done"
    /\ \A t \in TableNames : output[t].rows # <<>>
    /\ output.songplays # start_output.songplays

\* C8 as claimed: when a run has failed, every table it had written holds
\* what a run writes, and every other table is as it was when the run
\* started; and a complete run after a failed one leaves the five tables
\* with the rows of a run that never failed.
C8_FailedRunLeavesOthersAsTheyWere ==
    /\ Failed => \A t \in written : SameRows(Rows(t), CleanRun(t))
    /\ Failed => \A t \in TableNames \ written : output[t] = start_output[t]
    /\ (rerun /\ first_run = "failed" /\ pl.pc = "done") =>
          \A t \in TableNames : output[t].present /\ SameRows(Rows(t), CleanRun(t))

\* C8 as amended: when a run has failed, every table it had written holds
\* what a run writes, and every table whose write it had not started is as
\* it was when the run started (the table whose write failed may be in any
\* state); and a complete run after a failed one leaves the five tables
\* with the rows of a run that never failed.
C8_FailedRunLeavesUnstartedAsTheyWere ==
    /\ Failed => \A t \in written : SameRows(Rows(t), CleanRun(t))
    /\ Failed => \A t \in TableNames \ (written \cup {torn}) : output[t] = start_output[t]
    /\ (rerun /\ first_run = "failed" /\ pl.pc = "done") =>
          \A t \in TableNames : output[t].present /\ SameRows(Rows(t), CleanRun(t))

C8_Witness ==
    /\ rerun /\ first_run = "failed" /\ pl.pc = "done"
    /\ start_output.songs.present
    /\ start_output.time.present
    /\ Len(start_output.time.rows) < Len(output.time.rows)
    /\ ~start_output.songplays.present
    /\ output.songplays.rows # <<>>

\* C9: when the two transforms run concurrently on one session, neither
\* raises, and once both have completed the five tables hold the rows of a
\* sequential run of main.
C9_ConcurrentRunsSafe ==
    /\ ~Failed
    /\ (ps.pc = "done" /\ pl.pc = "done") =>
          \A t \in TableNames : output[t].present /\ SameRows(Rows(t), CleanRun(t))

\* C10: when process_log_data has completed, every songplays row has exactly
\* one time row with its start_time, and that time row has its year and month.
C10_SongplaysTimeIntegrity ==
    pl.pc = "done" =>
        \A r \in Range(output.songplays.rows) :
            LET same == {k \in DOMAIN output.time.rows :
                            output.time.rows[k].start_time = r.start_time}
            IN  /\ Cardinality(same) = 1
                /\ \A k \in same :
                      /\ output.time.rows[k].year = r.year
                      /\ output.time.rows[k].month = r.month

C10_Witness ==
    /\ pl.pc = "done"
    /\ \E i, j \in DOMAIN output.songplays.rows :
          /\ i # j
          /\ output.songplays.rows[i].start_time = output.songplays.rows[j].start_time
    /\ \E i, j \in DOMAIN output.songplays.rows :
          /\ output.songplays.rows[i].year # output.songplays.rows[j].year
          /\ output.songplays.rows[i].month # output.songplays.rows[j].month

====
